---- MODULE Spec2Model ----
(***************************************************************************)
(* merge-lists.js: the merge of the five ranking lists into one ordered    *)
(* list (normalizeWebsite, the tranco pass, the pass over the other lists, *)
(* result.sort and the url fill-in).                                       *)
(*                                                                         *)
(* A JavaScript string is the sequence of its characters, each a           *)
(* one-character string: "a.tw" is <<"a", ".", "t", "w">>.  The values     *)
(* undefined and null are the one-element sequences Undefined and Null,    *)
(* which no string equals.                                                 *)
(***************************************************************************)
EXTENDS Integers, Sequences, FiniteSets, TLC

VARIABLES
  pc,           \* "merge", then "fill" (sorted), then "done"; "aborted" after an
                \* uncaught exception; "normalize" in SpecNorm
  cur,          \* place, in processing order, of the list read last
  websitesMap,  \* the Map: its [key, value] pairs in insertion order
  result,       \* the array: references (places in websitesMap) to the value objects
  data,         \* per list name, the records read from its file so far
  nIn,          \* SpecNorm: the string normalizeWebsite was first called with
  nOut          \* SpecNorm: the results of the successive calls

vars == <<pc, cur, websitesMap, result, data, nIn, nOut>>

----------------------------------------------------------------------------
(* Bounds of the model *)

MaxWww == 2
MaxApply == 2
MaxRank == 3
MaxMergeRank == 2
MaxRecords == 3

----------------------------------------------------------------------------
(* Strings *)

Undefined == <<"undefined">>
Null == <<"null">>

Falsy(v) == v = Undefined \/ v = Null \/ v = <<>>

IsSpace(c) == c = " "

\* The letters of the model's strings; every other character is its own lower case.
toLowerCaseChar(c) ==
  CASE c = "A" -> "a"
    [] c = "B" -> "b"
    [] c = "C" -> "c"
    [] c = "T" -> "t"
    [] c = "W" -> "w"
    [] OTHER -> c

toLowerCase(s) == [i \in 1..Len(s) |-> toLowerCaseChar(s[i])]

RECURSIVE trimStart(_)
trimStart(s) ==
  IF s # <<>> /\ IsSpace(Head(s)) THEN trimStart(Tail(s)) ELSE s

RECURSIVE trimEnd(_)
trimEnd(s) ==
  IF s # <<>> /\ IsSpace(s[Len(s)]) THEN trimEnd(SubSeq(s, 1, Len(s) - 1)) ELSE s

trim(s) == trimEnd(trimStart(s))

startsWith(s, prefix) ==
  Len(s) >= Len(prefix) /\ SubSeq(s, 1, Len(prefix)) = prefix

substring(s, start) == SubSeq(s, start + 1, Len(s))

WwwDot == <<"w", "w", "w", ".">>

\* The prefix test made before lower-casing.
normalizeWebsiteLate(domain) ==
  IF Falsy(domain) THEN <<>>
  ELSE LET normalized == trim(domain)
       IN  IF startsWith(normalized, WwwDot)
           THEN toLowerCase(substring(normalized, Len(WwwDot)))
           ELSE toLowerCase(normalized)

normalizeWebsite(domain) ==
  IF Falsy(domain) THEN <<>>
  ELSE LET normalized == trim(toLowerCase(domain))
       IN  IF startsWith(normalized, WwwDot)
           THEN substring(normalized, Len(WwwDot))
           ELSE normalized

\* a.website.localeCompare(b.website) on the characters normalized domains are
\* made of: whitespace, then punctuation, then letters; a proper prefix first.
Collation == <<" ", ".", "a", "b", "c", "t", "w">>

CharOrd(c) == CHOOSE i \in 1..Len(Collation) : Collation[i] = c

RECURSIVE localeCompare(_, _)
localeCompare(a, b) ==
  IF a = <<>> /\ b = <<>> THEN 0
  ELSE IF a = <<>> THEN -1
  ELSE IF b = <<>> THEN 1
  ELSE IF CharOrd(Head(a)) < CharOrd(Head(b)) THEN -1
  ELSE IF CharOrd(Head(a)) > CharOrd(Head(b)) THEN 1
  ELSE localeCompare(Tail(a), Tail(b))

----------------------------------------------------------------------------
(* SpecNorm: normalizeWebsite applied, and applied again to its result *)

Pads == {<<>>, <<" ">>}

RECURSIVE WwwLabels(_)
WwwLabels(n) ==
  IF n = 0 THEN {<<>>}
  ELSE {l \o rest : l \in {WwwDot, <<"W", "W", "W", ".">>}, rest \in WwwLabels(n - 1)}

Bodies == {<<>>, <<"a", ".", "t", "w">>, <<"A", ".", "T", "W">>, <<"w", ".", "t", "w">>}

NormInputs ==
  {Undefined} \cup
  {lead \o www \o inner \o body \o trail :
     lead \in Pads, www \in UNION {WwwLabels(n) : n \in 0..MaxWww},
     inner \in Pads, body \in Bodies, trail \in Pads}

InitNorm ==
  /\ pc = "normalize"
  /\ cur = 0
  /\ websitesMap = <<>>
  /\ result = <<>>
  /\ data = <<>>
  /\ nIn \in NormInputs
  /\ nOut = <<>>

Normalize ==
  /\ pc = "normalize"
  /\ Len(nOut) < MaxApply
  /\ nOut' = Append(nOut, normalizeWebsite(IF nOut = <<>> THEN nIn ELSE nOut[Len(nOut)]))
  /\ UNCHANGED <<pc, cur, websitesMap, result, data, nIn>>

NextNorm == Normalize

SpecNorm == InitNorm /\ [][NextNorm]_vars

\* C1 as stated: normalizeWebsite is idempotent, normalize(normalize(d)) =
\* normalize(d) for every input d.
C1_Idempotent ==
  Len(nOut) >= 2 => nOut[2] = nOut[1]

\* What is left of d, trimmed and lower-cased, after its first "www." label.
AfterFirstWww(d) ==
  LET t == trim(toLowerCase(d))
  IN  IF startsWith(t, WwwDot) THEN substring(t, Len(WwwDot)) ELSE t

SingleWww(d) ==
  \/ Falsy(d)
  \/ LET t == trim(toLowerCase(d))
         r == substring(t, Len(WwwDot))
     IN  startsWith(t, WwwDot) =>
           /\ ~startsWith(r, WwwDot)
           /\ (r = <<>> \/ ~IsSpace(Head(r)))

\* C1 as amended: normalize(normalize(d)) = normalize(d) for every input d
\* that, trimmed and lower-cased, carries at most one leading "www." label and
\* no whitespace right after it; and the first call strips exactly one label.
C1_IdempotentSingleWww ==
  /\ (Len(nOut) >= 1 /\ ~Falsy(nIn)) => nOut[1] = AfterFirstWww(nIn)
  /\ (Len(nOut) >= 2 /\ SingleWww(nIn)) => nOut[2] = nOut[1]

\* An upper-case "WWW." input was normalized twice.
C1_Witness ==
  /\ Len(nOut) >= 2
  /\ SingleWww(nIn)
  /\ startsWith(nIn, <<"W", "W", "W", ".">>)
  /\ nOut[1] = <<"a", ".", "t", "w">>

----------------------------------------------------------------------------
(* The configuration *)

FILES == <<
  [listName |-> "ahrefs", urlField |-> FALSE],
  [listName |-> "cloudflare", urlField |-> FALSE],
  [listName |-> "similarweb", urlField |-> FALSE],
  [listName |-> "semrush", urlField |-> FALSE],
  [listName |-> "tranco", urlField |-> TRUE] >>

ListNames == {FILES[i].listName : i \in 1..Len(FILES)}

trancoFile == FILES[CHOOSE i \in 1..Len(FILES) : FILES[i].listName = "tranco"]

\* The order the files are read in: tranco, then FILES without tranco.
Order ==
  <<trancoFile.listName>> \o
  SelectSeq([i \in 1..Len(FILES) |-> FILES[i].listName], LAMBDA n : n # "tranco")

----------------------------------------------------------------------------
(* The Map and the objects it holds *)

MapHas(map, k) == \E i \in 1..Len(map) : map[i].key = k

MapIndex(map, k) == CHOOSE i \in 1..Len(map) : map[i].key = k

MapGet(map, k) == map[MapIndex(map, k)].value

MapSet(map, k, v) ==
  IF MapHas(map, k)
  THEN [map EXCEPT ![MapIndex(map, k)].value = v]
  ELSE Append(map, [key |-> k, value |-> v])

\* obj[name] = r on the rank object
SetRank(rank, name, r) ==
  [n \in (DOMAIN rank) \cup {name} |-> IF n = name THEN r ELSE rank[n]]

HasRank(rank, name) == name \in DOMAIN rank

----------------------------------------------------------------------------
(* The tranco pass, one item *)

\* The rank comparison made with <= instead of <.
trancoFoldLE(map, item) ==
  LET domain == item.domain
      normalizedWebsite == normalizeWebsite(domain)
      url == IF Falsy(item.url) THEN Null ELSE item.url
      rank == item.rank
  IN  IF Falsy(domain) THEN map
      ELSE IF MapHas(map, normalizedWebsite)
      THEN LET existing == MapGet(map, normalizedWebsite)
           IN  IF HasRank(existing.rank, trancoFile.listName)
                    /\ rank <= existing.rank[trancoFile.listName]
               THEN MapSet(map, normalizedWebsite,
                      [existing EXCEPT !.url = url,
                         !.rank = SetRank(existing.rank, trancoFile.listName, rank)])
               ELSE map
      ELSE MapSet(map, normalizedWebsite,
             [website |-> normalizedWebsite, url |-> url,
              rank |-> SetRank(<<>>, trancoFile.listName, rank)])

trancoFold(map, item) ==
  LET domain == item.domain
      normalizedWebsite == normalizeWebsite(domain)
      url == IF Falsy(item.url) THEN Null ELSE item.url
      rank == item.rank
  IN  IF Falsy(domain) THEN map
      ELSE IF MapHas(map, normalizedWebsite)
      THEN LET existing == MapGet(map, normalizedWebsite)
               hasTranco == HasRank(existing.rank, trancoFile.listName)
           IN  IF hasTranco /\ rank < existing.rank[trancoFile.listName]
               THEN MapSet(map, normalizedWebsite,
                      [existing EXCEPT !.url = url,
                         !.rank = SetRank(existing.rank, trancoFile.listName, rank)])
               ELSE IF ~hasTranco
               THEN MapSet(map, normalizedWebsite,
                      [existing EXCEPT !.url = url,
                         !.rank = SetRank(existing.rank, trancoFile.listName, rank)])
               ELSE map
      ELSE MapSet(map, normalizedWebsite,
             [website |-> normalizedWebsite, url |-> url,
              rank |-> SetRank(<<>>, trancoFile.listName, rank)])

----------------------------------------------------------------------------
(* The pass over the other files, one item *)

\* The entry stored under the domain as read, not under the normalized one.
otherFoldRawKey(map, listName, item) ==
  LET domain == item.domain
      normalizedWebsite == normalizeWebsite(domain)
  IN  IF Falsy(domain) THEN map
      ELSE IF MapHas(map, domain)
      THEN LET existing == MapGet(map, domain)
           IN  MapSet(map, domain,
                 [existing EXCEPT !.rank = SetRank(existing.rank, listName, item.rank)])
      ELSE MapSet(map, domain,
             [website |-> normalizedWebsite, url |-> Null,
              rank |-> SetRank(<<>>, listName, item.rank)])

\* The smaller rank kept, as in the tranco pass.
otherFoldMin(map, listName, item) ==
  LET domain == item.domain
      normalizedWebsite == normalizeWebsite(domain)
  IN  IF Falsy(domain) THEN map
      ELSE IF MapHas(map, normalizedWebsite)
      THEN LET existing == MapGet(map, normalizedWebsite)
           IN  IF HasRank(existing.rank, listName) /\ existing.rank[listName] <= item.rank
               THEN map
               ELSE MapSet(map, normalizedWebsite,
                      [existing EXCEPT !.rank = SetRank(existing.rank, listName, item.rank)])
      ELSE MapSet(map, normalizedWebsite,
             [website |-> normalizedWebsite, url |-> Null,
              rank |-> SetRank(<<>>, listName, item.rank)])

\* The rank added to the one the list already gave the key.
otherFoldSum(map, listName, item) ==
  LET domain == item.domain
      normalizedWebsite == normalizeWebsite(domain)
  IN  IF Falsy(domain) THEN map
      ELSE IF MapHas(map, normalizedWebsite)
      THEN LET existing == MapGet(map, normalizedWebsite)
               sum == IF HasRank(existing.rank, listName)
                      THEN existing.rank[listName] + item.rank
                      ELSE item.rank
           IN  MapSet(map, normalizedWebsite,
                 [existing EXCEPT !.rank = SetRank(existing.rank, listName, sum)])
      ELSE MapSet(map, normalizedWebsite,
             [website |-> normalizedWebsite, url |-> Null,
              rank |-> SetRank(<<>>, listName, item.rank)])

\* The entry replaced by a new one whether or not the key exists.
otherFoldReplace(map, listName, item) ==
  LET domain == item.domain
      normalizedWebsite == normalizeWebsite(domain)
  IN  IF Falsy(domain) THEN map
      ELSE MapSet(map, normalizedWebsite,
             [website |-> normalizedWebsite, url |-> Null,
              rank |-> SetRank(<<>>, listName, item.rank)])

otherFold(map, listName, item) ==
  LET domain == item.domain
      normalizedWebsite == normalizeWebsite(domain)
  IN  IF Falsy(domain) THEN map
      ELSE IF MapHas(map, normalizedWebsite)
      THEN LET existing == MapGet(map, normalizedWebsite)
           IN  MapSet(map, normalizedWebsite,
                 [existing EXCEPT !.rank = SetRank(existing.rank, listName, item.rank)])
      ELSE MapSet(map, normalizedWebsite,
             [website |-> normalizedWebsite, url |-> Null,
              rank |-> SetRank(<<>>, listName, item.rank)])

----------------------------------------------------------------------------
(* The comparator of result.sort *)

getTaiwanRanks(item) ==
  (IF HasRank(item.rank, "cloudflare") THEN <<item.rank["cloudflare"]>> ELSE <<>>) \o
  (IF HasRank(item.rank, "similarweb") THEN <<item.rank["similarweb"]>> ELSE <<>>) \o
  (IF HasRank(item.rank, "ahrefs") THEN <<item.rank["ahrefs"]>> ELSE <<>>) \o
  (IF HasRank(item.rank, "semrush") THEN <<item.rank["semrush"]>> ELSE <<>>)

RECURSIVE reduceSum(_)
reduceSum(ranks) == IF ranks = <<>> THEN 0 ELSE Head(ranks) + reduceSum(Tail(ranks))

\* Math.min(...ranks), ranks not empty
MathMin(ranks) ==
  CHOOSE m \in {ranks[i] : i \in 1..Len(ranks)} : \A i \in 1..Len(ranks) : m <= ranks[i]

\* The two tier tests answering the wrong way round.
TierDiffSwapped(aTaiwanRanks, bTaiwanRanks) ==
  IF Len(aTaiwanRanks) > 0 /\ Len(bTaiwanRanks) = 0 THEN 1
  ELSE IF Len(aTaiwanRanks) = 0 /\ Len(bTaiwanRanks) > 0 THEN -1
  ELSE 0

\* -1 or 1 when exactly one of the two has ranks from the Taiwan lists, else 0
TierDiff(aTaiwanRanks, bTaiwanRanks) ==
  IF Len(aTaiwanRanks) > 0 /\ Len(bTaiwanRanks) = 0 THEN -1
  ELSE IF Len(aTaiwanRanks) = 0 /\ Len(bTaiwanRanks) > 0 THEN 1
  ELSE 0

\* The larger mean first.
AvgDiffReversed(aRanks, bRanks) ==
  reduceSum(bRanks) * Len(aRanks) - reduceSum(aRanks) * Len(bRanks)

\* aAvg - bAvg has the sign of aSum * bLen - bSum * aLen (the lengths are positive).
AvgDiff(aRanks, bRanks) ==
  reduceSum(aRanks) * Len(bRanks) - reduceSum(bRanks) * Len(aRanks)

\* aTranco - bTranco, a missing rank being Infinity; equal when both are missing.
TrancoDiff(a, b) ==
  IF HasRank(a.rank, "tranco") /\ HasRank(b.rank, "tranco")
  THEN a.rank["tranco"] - b.rank["tranco"]
  ELSE IF HasRank(a.rank, "tranco") THEN -1
  ELSE IF HasRank(b.rank, "tranco") THEN 1
  ELSE 0

\* No closing comparison: entries tied on their ranks compare equal.
WebsiteDiffNone(a, b) == 0

WebsiteDiff(a, b) == localeCompare(a.website, b.website)

Compare(a, b) ==
  LET aTaiwanRanks == getTaiwanRanks(a)
      bTaiwanRanks == getTaiwanRanks(b)
  IN  IF TierDiff(aTaiwanRanks, bTaiwanRanks) # 0
      THEN TierDiff(aTaiwanRanks, bTaiwanRanks)
      ELSE IF Len(aTaiwanRanks) > 0 /\ Len(bTaiwanRanks) > 0
                /\ Len(aTaiwanRanks) # Len(bTaiwanRanks)
      THEN Len(bTaiwanRanks) - Len(aTaiwanRanks)
      ELSE IF Len(aTaiwanRanks) > 0 /\ Len(bTaiwanRanks) > 0
                /\ AvgDiff(aTaiwanRanks, bTaiwanRanks) # 0
      THEN AvgDiff(aTaiwanRanks, bTaiwanRanks)
      ELSE IF Len(aTaiwanRanks) > 0 /\ Len(bTaiwanRanks) > 0
                /\ MathMin(aTaiwanRanks) # MathMin(bTaiwanRanks)
      THEN MathMin(aTaiwanRanks) - MathMin(bTaiwanRanks)
      ELSE IF Len(aTaiwanRanks) = 0 /\ Len(bTaiwanRanks) = 0 /\ TrancoDiff(a, b) # 0
      THEN TrancoDiff(a, b)
      ELSE WebsiteDiff(a, b)

\* Array.prototype.sort with the comparator, on the references refs into map: a
\* stable insertion sort (an element moves left past those that compare greater).
RECURSIVE InsertSorted(_, _, _)
InsertSorted(map, sorted, x) ==
  IF sorted = <<>> THEN <<x>>
  ELSE LET last == sorted[Len(sorted)]
       IN  IF Compare(map[last].value, map[x].value) > 0
           THEN Append(InsertSorted(map, SubSeq(sorted, 1, Len(sorted) - 1), x), last)
           ELSE Append(sorted, x)

RECURSIVE ArraySort(_, _)
ArraySort(map, refs) ==
  IF refs = <<>> THEN <<>>
  ELSE InsertSorted(map, ArraySort(map, SubSeq(refs, 1, Len(refs) - 1)), refs[Len(refs)])

\* Array.from(websitesMap.values())
ArrayFromValues(map) == [i \in 1..Len(map) |-> i]

Https == <<"h", "t", "t", "p", "s", ":", "/", "/">>

\* No url filled in.
fillUrlsNone(map, refs) == map

fillUrls(map, refs) ==
  [i \in 1..Len(map) |->
     IF (\E j \in 1..Len(refs) : refs[j] = i) /\ Falsy(map[i].value.url)
     THEN [map[i] EXCEPT !.value.url = Https \o map[i].value.website]
     ELSE map[i]]

----------------------------------------------------------------------------
(* mergeLists, step by step *)

TotalRecords == reduceSum([i \in 1..Len(Order) |-> Len(data[Order[i]])])

\* The next item of tranco_list_tw.json
TrancoRecord(item) ==
  /\ pc = "merge"
  /\ cur <= 1
  /\ cur' = 1
  /\ websitesMap' = trancoFold(websitesMap, item)
  /\ data' = [data EXCEPT ![trancoFile.listName] = Append(@, item)]
  /\ UNCHANGED <<pc, result, nIn, nOut>>

\* The next item of the p-th file read: the files before it hold no more items.
OtherRecord(p, item) ==
  /\ pc = "merge"
  /\ p \in 2..Len(Order)
  /\ cur <= p
  /\ cur' = p
  /\ websitesMap' = otherFold(websitesMap, Order[p], item)
  /\ data' = [data EXCEPT ![Order[p]] = Append(@, item)]
  /\ UNCHANGED <<pc, result, nIn, nOut>>

\* What readJsonFile returns for a file: the value JSON.parse gives, an array
\* with its items or a value of another kind; the empty array when
\* readFileSync ("ENOENT") or JSON.parse ("SyntaxError") throws.
readJsonFile(file) ==
  IF file.kind \in {"ENOENT", "SyntaxError"}
  THEN [kind |-> "array", items |-> <<>>]
  ELSE file

\* for (const item of value) runs; on a value of another kind it throws.
Iterable(value) == value.kind = "array"

\* The p-th file read holds no item: the loop over what readJsonFile returns
\* runs no iteration, or throws a TypeError that nothing catches.
ReadFile(p, file) ==
  /\ pc = "merge"
  /\ p \in 1..Len(Order)
  /\ cur < p
  /\ cur' = p
  /\ LET value == readJsonFile(file)
     IN  IF Iterable(value)
         THEN value.items = <<>> /\ pc' = pc
         ELSE pc' = "aborted"
  /\ UNCHANGED <<websitesMap, result, data, nIn, nOut>>

\* No file holds another item, the loop over FILES ends: Array.from and
\* result.sort
Sort ==
  /\ pc = "merge"
  /\ pc' = "fill"
  /\ cur' = Len(Order)
  /\ result' = ArraySort(websitesMap, ArrayFromValues(websitesMap))
  /\ UNCHANGED <<websitesMap, data, nIn, nOut>>

\* The loop that fills in the missing urls, and the output
UrlFill ==
  /\ pc = "fill"
  /\ pc' = "done"
  /\ websitesMap' = fillUrls(websitesMap, result)
  /\ UNCHANGED <<cur, result, data, nIn, nOut>>

\* The output: the objects of result, in order
Output == [i \in 1..Len(result) |-> websitesMap[result[i]].value]

----------------------------------------------------------------------------
(* Spec: the whole run, on files of a few records *)

ATw == <<"a", ".", "t", "w">>
BTw == <<"b", ".", "t", "w">>
CTw == <<"c", ".", "t", "w">>

\* A record without its domain field, and one whose domain is a blank.
JunkItems ==
  { [domain |-> Undefined, rank |-> 1, url |-> Undefined],
    [domain |-> <<" ">>, rank |-> 1, url |-> Undefined] }

MergeDomains == {ATw, <<"W", "W", "W", ".">> \o ATw}

\* A tranco record has no url or the url of its domain.
TrancoItems ==
  JunkItems \cup
  UNION {{[domain |-> d, rank |-> r, url |-> u] :
            r \in 1..MaxMergeRank, u \in {Undefined, Https \o d}} : d \in MergeDomains}

OtherItems ==
  JunkItems \cup
  {[domain |-> d, rank |-> r, url |-> Undefined] :
     d \in MergeDomains, r \in 1..MaxMergeRank}

\* The files other than tranco's that hold records in Spec: the first and the
\* last of them read.
MergeFiles == {p \in 2..Len(Order) : Order[p] \in {"ahrefs", "semrush"}}

\* The file that holds no item, and what it may hold instead: nothing (it is
\* missing), text that is not JSON, the empty array, or JSON that is not an
\* array (null, an object).
ItemlessFiles == {p \in 2..Len(Order) : Order[p] = "cloudflare"}

ItemlessContents ==
  {[kind |-> k, items |-> <<>>] : k \in {"ENOENT", "SyntaxError", "array", "null", "object"}}

Init ==
  /\ pc = "merge"
  /\ cur = 0
  /\ websitesMap = <<>>
  /\ result = <<>>
  /\ data = [n \in ListNames |-> <<>>]
  /\ nIn = Undefined
  /\ nOut = <<>>

Next ==
  \/ /\ TotalRecords < MaxRecords
     /\ \E item \in TrancoItems : TrancoRecord(item)
  \/ /\ TotalRecords < MaxRecords
     /\ \E p \in MergeFiles, item \in OtherItems : OtherRecord(p, item)
  \/ /\ TotalRecords < MaxRecords
     /\ \E p \in ItemlessFiles, file \in ItemlessContents : ReadFile(p, file)
  \/ Sort
  \/ UrlFill

Spec == Init /\ [][Next]_vars

----------------------------------------------------------------------------
(* The records read, as the claims speak of them *)

\* The places in a list's file of the records the passes do not skip
Kept(name) == {i \in 1..Len(data[name]) : ~Falsy(data[name][i].domain)}

KeyOf(name, i) == normalizeWebsite(data[name][i].domain)

KeysOf(name) == {KeyOf(name, i) : i \in Kept(name)}

AllKeys == UNION {KeysOf(name) : name \in ListNames}

RecordsOf(name, k) == {i \in Kept(name) : KeyOf(name, i) = k}

SetMin(S) == CHOOSE m \in S : \A x \in S : m <= x

SetMax(S) == CHOOSE m \in S : \A x \in S : m >= x

PrimaryMinRank(k) ==
  LET records == RecordsOf("tranco", k)
  IN  SetMin({data["tranco"][i].rank : i \in records})

\* The first tranco record of key k, in input order, that has the minimum rank
PrimaryFirstMin(k) ==
  LET records == RecordsOf("tranco", k)
      min == SetMin({data["tranco"][i].rank : i \in records})
  IN  SetMin({i \in records : data["tranco"][i].rank = min})

SuppliedUrl(item) == IF Falsy(item.url) THEN Null ELSE item.url

\* The url the merge stores for key k
PrimaryUrl(k) ==
  IF k \in KeysOf("tranco") THEN SuppliedUrl(data["tranco"][PrimaryFirstMin(k)]) ELSE Null

OtherLists == ListNames \ {"tranco"}

----------------------------------------------------------------------------
(* Claims checked under Spec *)

\* C2: every key of the primary source has rank.tranco equal to the minimum rank
\* among the tranco records of that key, and, until the urls are filled in, the
\* url of the first record, in input order, that has that minimum rank.
C2_PrimaryMinRankFirstUrl ==
  pc \in {"merge", "fill", "done"} =>
    \A k \in KeysOf("tranco") :
      /\ MapHas(websitesMap, k)
      /\ LET entry == MapGet(websitesMap, k)
         IN  /\ HasRank(entry.rank, "tranco")
             /\ entry.rank["tranco"] = PrimaryMinRank(k)
             /\ pc # "done" =>
                  entry.url = SuppliedUrl(data["tranco"][PrimaryFirstMin(k)])

\* A larger rank, then the minimum rank twice with different urls: the entry
\* carries the url of the first of the two.
C2_Witness ==
  /\ pc = "fill"
  /\ \E k \in KeysOf("tranco") :
       \E i, j, l \in RecordsOf("tranco", k) :
         /\ i < j /\ j < l
         /\ data["tranco"][i].rank > data["tranco"][j].rank
         /\ data["tranco"][j].rank = data["tranco"][l].rank
         /\ ~Falsy(data["tranco"][j].url) /\ ~Falsy(data["tranco"][l].url)
         /\ data["tranco"][j].url # data["tranco"][l].url
         /\ MapGet(websitesMap, k).url = data["tranco"][j].url

\* C6: the keys of the Map are the normalized domains of the records that were
\* not skipped; each entry's website is its key; the output holds every entry
\* of the Map once and no website twice.
C6_DeduplicatedComplete ==
  pc \in {"merge", "fill", "done"} =>
    LET keys == AllKeys
    IN  /\ {websitesMap[i].key : i \in 1..Len(websitesMap)} = keys
        /\ \A i \in 1..Len(websitesMap) : websitesMap[i].value.website = websitesMap[i].key
        /\ pc \in {"fill", "done"} =>
             /\ Len(result) = Len(websitesMap)
             /\ {result[i] : i \in 1..Len(result)} = 1..Len(websitesMap)
             /\ {Output[i].website : i \in 1..Len(Output)} = keys
             /\ \A i, j \in 1..Len(Output) :
                  Output[i].website = Output[j].website => i = j

\* "a.tw" and "WWW.a.tw" were read from two lists and the output holds two
\* entries, one of them for a.tw with both ranks.
C6_Witness ==
  /\ pc = "done"
  /\ Len(Output) = 2
  /\ \E n1, n2 \in ListNames :
       /\ n1 # n2
       /\ \E i \in Kept(n1) : data[n1][i].domain = ATw
       /\ \E j \in Kept(n2) : data[n2][j].domain = <<"W", "W", "W", ".">> \o ATw
       /\ \E o \in 1..Len(Output) :
            Output[o].website = ATw /\ {n1, n2} \subseteq DOMAIN Output[o].rank

\* The Map with every url set to null
UrlsErased(map) == [i \in 1..Len(map) |-> [map[i] EXCEPT !.value.url = Null]]

\* C7: every output entry has a url, the one the merge stored from the primary
\* source when there is one and "https://" + website otherwise; the urls are
\* still the merged ones when the array is sorted, and the order of the output
\* is the one the sort gives with every url erased.
C7_UrlFilledAfterSort ==
  /\ pc = "fill" =>
       \A i \in 1..Len(result) :
         LET entry == websitesMap[result[i]].value
         IN  entry.url = PrimaryUrl(entry.website)
  /\ pc = "done" =>
       \A i \in 1..Len(result) :
         LET entry == websitesMap[result[i]].value
             merged == PrimaryUrl(entry.website)
         IN  /\ ~Falsy(entry.url)
             /\ entry.url = IF merged # Null THEN merged ELSE Https \o entry.website
  /\ pc \in {"fill", "done"} =>
       result = ArraySort(UrlsErased(websitesMap), ArrayFromValues(websitesMap))

\* The output holds an entry with the url tranco gave and, before it, an entry
\* whose url was filled in.
C7_Witness ==
  /\ pc = "done"
  /\ \E i, j \in 1..Len(Output) :
       /\ i < j
       /\ Output[i].url = Https \o Output[i].website
       /\ PrimaryUrl(Output[i].website) = Null
       /\ Output[j].url = Https \o ATw

\* C8: the Map holds no entry keyed by the empty string.
C8_NoEmptyKey ==
  \A i \in 1..Len(websitesMap) : websitesMap[i].key # <<>>

\* C9: for every list other than tranco and every key it contributes, the
\* entry's rank under that list is the rank of the last record of the list, in
\* input order, that normalizes to the key.
C9_LastRecordWins ==
  pc \in {"merge", "fill", "done"} =>
    \A name \in OtherLists : \A k \in KeysOf(name) :
      /\ MapHas(websitesMap, k)
      /\ LET entry == MapGet(websitesMap, k)
         IN  /\ HasRank(entry.rank, name)
             /\ entry.rank[name] = data[name][SetMax(RecordsOf(name, k))].rank

\* A list gave a key tranco had given twice, the smaller rank first.
C9_Witness ==
  /\ pc = "fill"
  /\ \E name \in OtherLists : \E k \in KeysOf(name) \cap KeysOf("tranco") :
       \E i, j \in RecordsOf(name, k) :
         /\ i < j
         /\ j = SetMax(RecordsOf(name, k))
         /\ data[name][i].rank < data[name][j].rank
         /\ MapGet(websitesMap, k).rank[name] = data[name][j].rank

\* The list a record was just read from, when the step read one
ReadFrom(name) == data'[name] # data[name]

\* C10: folding a record of a list other than tranco leaves every entry's key,
\* website and url, the ranks under the other list names and the entries of the
\* other keys as they were; an entry it creates has a null url and the one
\* rank; and after it the entries of keys tranco did not give have a null url.
C10_OtherFoldFrame ==
  [][\A name \in OtherLists :
       (pc = "merge" /\ ReadFrom(name)) =>
         LET item == data'[name][Len(data'[name])]
             k == normalizeWebsite(item.domain)
         IN  /\ Len(websitesMap') \in {Len(websitesMap), Len(websitesMap) + 1}
             /\ \A i \in 1..Len(websitesMap) :
                  /\ websitesMap'[i].key = websitesMap[i].key
                  /\ websitesMap'[i].value.website = websitesMap[i].value.website
                  /\ websitesMap'[i].value.url = websitesMap[i].value.url
                  /\ \A n \in ListNames \ {name} :
                       /\ HasRank(websitesMap'[i].value.rank, n)
                            = HasRank(websitesMap[i].value.rank, n)
                       /\ HasRank(websitesMap[i].value.rank, n) =>
                            websitesMap'[i].value.rank[n] = websitesMap[i].value.rank[n]
                  /\ websitesMap[i].key # k => websitesMap'[i] = websitesMap[i]
             /\ Len(websitesMap') = Len(websitesMap) + 1 =>
                  /\ websitesMap'[Len(websitesMap')].key = k
                  /\ websitesMap'[Len(websitesMap')].value.url = Null
                  /\ DOMAIN websitesMap'[Len(websitesMap')].value.rank = {name}
             /\ \A i \in 1..Len(websitesMap') :
                  websitesMap'[i].key \notin KeysOf("tranco") =>
                    websitesMap'[i].value.url = Null]_vars

\* An entry with tranco's url and rank took a rank from each of two other lists.
C10_Witness ==
  /\ pc = "merge"
  /\ \E i \in 1..Len(websitesMap) :
       /\ websitesMap[i].value.url = Https \o <<"W", "W", "W", ".">> \o ATw
       /\ DOMAIN websitesMap[i].value.rank = {"tranco", "ahrefs", "semrush"}

----------------------------------------------------------------------------
(* SpecRank: result.sort and the fill-in on the Maps a merge can leave *)

RankKeys == <<ATw, BTw, CTw>>

\* The ranks tranco and semrush give in SpecRank; cloudflare gives 1..MaxRank.
RankSmallRanks == {1, 2}

\* The rank object with the ranks given; 0 stands for no rank under the name.
RankObject(tranco, cloudflare, semrush) ==
  LET r == [n \in {"tranco", "cloudflare", "semrush"} |->
              IF n = "tranco" THEN tranco ELSE IF n = "cloudflare" THEN cloudflare ELSE semrush]
  IN  [n \in {m \in DOMAIN r : r[m] # 0} |-> r[n]]

RankObjects ==
  {RankObject(t, c, s) :
     t \in {0} \cup RankSmallRanks, c \in 0..MaxRank, s \in {0} \cup RankSmallRanks}

\* The files in which each key RankKeys[i] has the ranks ranks[i]: each list
\* holds, in the order of RankKeys, the keys it ranks.
FilesOf(ranks) ==
  [name \in ListNames |->
     LET has == SelectSeq([i \in 1..Len(RankKeys) |-> i], LAMBDA i : HasRank(ranks[i], name))
     IN  [j \in 1..Len(has) |->
            [domain |-> RankKeys[has[j]], rank |-> ranks[has[j]][name], url |-> Undefined]]]

\* The for loop over the items of tranco's file
RECURSIVE trancoPass(_, _)
trancoPass(map, items) ==
  IF items = <<>> THEN map ELSE trancoPass(trancoFold(map, Head(items)), Tail(items))

\* The for loop over the items of another file
RECURSIVE otherPass(_, _, _)
otherPass(map, listName, items) ==
  IF items = <<>> THEN map
  ELSE otherPass(otherFold(map, listName, Head(items)), listName, Tail(items))

\* The for loop over FILES, from the p-th file read on
RECURSIVE otherPasses(_, _, _)
otherPasses(map, files, p) ==
  IF p > Len(Order) THEN map
  ELSE otherPasses(otherPass(map, Order[p], files[Order[p]]), files, p + 1)

\* The Map when the last file has been read
Merged(files) == otherPasses(trancoPass(<<>>, files["tranco"]), files, 2)

\* The state in which the files have been merged and result.sort comes next.
InitRank ==
  \E ranks \in [1..Len(RankKeys) -> RankObjects] :
    /\ pc = "merge"
    /\ cur = Len(Order)
    /\ websitesMap = Merged(FilesOf(ranks))
    /\ result = <<>>
    /\ data = FilesOf(ranks)
    /\ nIn = Undefined
    /\ nOut = <<>>

NextRank ==
  \/ Sort
  \/ UrlFill

SpecRank == InitRank /\ [][NextRank]_vars

----------------------------------------------------------------------------
(* Claims checked under SpecRank *)

\* The ranks an entry has from the lists other than tranco, by list name
LocalNames(e) == (DOMAIN e.rank) \cap OtherLists

HasLocal(e) == LocalNames(e) # {}

RECURSIVE SumOver(_, _)
SumOver(rank, names) ==
  IF names = {} THEN 0
  ELSE LET n == CHOOSE x \in names : TRUE
       IN  rank[n] + SumOver(rank, names \ {n})

LocalCount(e) == Cardinality(LocalNames(e))

LocalSum(e) == SumOver(e.rank, LocalNames(e))

LocalMin(e) == SetMin({e.rank[n] : n \in LocalNames(e)})

\* mean(x) < mean(y) and mean(x) = mean(y), both with local ranks
MeanLess(x, y) == LocalSum(x) * LocalCount(y) < LocalSum(y) * LocalCount(x)

MeanEqual(x, y) == LocalSum(x) * LocalCount(y) = LocalSum(y) * LocalCount(x)

WebsiteLess(x, y) == localeCompare(x.website, y.website) < 0

\* The primary rank of x is smaller than that of y, a missing one being infinite
PrimaryLess(x, y) ==
  HasRank(x.rank, "tranco") /\ (HasRank(y.rank, "tranco") => x.rank["tranco"] < y.rank["tranco"])

PrimaryEqual(x, y) ==
  /\ HasRank(x.rank, "tranco") = HasRank(y.rank, "tranco")
  /\ HasRank(x.rank, "tranco") => x.rank["tranco"] = y.rank["tranco"]

\* C3: in the output, every entry with a rank from a list other than tranco
\* comes before every entry with none.
C3_LocalTierFirst ==
  pc \in {"fill", "done"} =>
    \A i, j \in 1..Len(Output) :
      (HasLocal(Output[i]) /\ ~HasLocal(Output[j])) => i < j

\* An entry two local lists only rank 3 and 2 precedes one tranco ranks 1.
C3_Witness ==
  /\ pc = "done"
  /\ \E i, j \in 1..Len(Output) :
       /\ i < j
       /\ ~HasRank(Output[i].rank, "tranco")
       /\ LocalCount(Output[i]) = 2 /\ LocalSum(Output[i]) = 5
       /\ ~HasLocal(Output[j])
       /\ Output[j].rank["tranco"] = 1

\* x is before y in the composite key of the claim (x and y in the same tier)
KeyBefore(x, y) ==
  IF HasLocal(x)
  THEN \/ LocalCount(x) > LocalCount(y)
       \/ LocalCount(x) = LocalCount(y) /\ MeanLess(x, y)
       \/ LocalCount(x) = LocalCount(y) /\ MeanEqual(x, y) /\ LocalMin(x) < LocalMin(y)
       \/ /\ LocalCount(x) = LocalCount(y) /\ MeanEqual(x, y) /\ LocalMin(x) = LocalMin(y)
          /\ WebsiteLess(x, y)
  ELSE \/ PrimaryLess(x, y)
       \/ PrimaryEqual(x, y) /\ WebsiteLess(x, y)

\* C4: any two output entries of the same tier are in the order of the
\* composite key: count descending, mean, minimum, website; or primary rank,
\* website.
C4_SortedByCompositeKey ==
  pc \in {"fill", "done"} =>
    \A i, j \in 1..Len(Output) :
      (i < j /\ HasLocal(Output[i]) = HasLocal(Output[j])) => KeyBefore(Output[i], Output[j])

\* Two entries with ranks {1, 3} and {2, 2}: the same count and mean, the
\* smaller minimum first though its website is the larger; and two entries tied
\* on count, mean and minimum.
C4_Witness ==
  /\ pc = "done"
  /\ \E i, j \in 1..Len(Output) :
       /\ i < j
       /\ LocalCount(Output[i]) = 2 /\ LocalCount(Output[j]) = 2
       /\ MeanEqual(Output[i], Output[j])
       /\ LocalMin(Output[i]) < LocalMin(Output[j])
       /\ WebsiteLess(Output[j], Output[i])
  /\ \E i, j \in 1..Len(Output) :
       /\ i < j
       /\ LocalCount(Output[i]) = 2 /\ LocalCount(Output[j]) = 2
       /\ MeanEqual(Output[i], Output[j])
       /\ LocalMin(Output[i]) = LocalMin(Output[j])

Sign(n) == IF n < 0 THEN -1 ELSE IF n > 0 THEN 1 ELSE 0

\* C5: the comparator is a strict total order on the entries of the Map (never
\* equal for two entries, antisymmetric, transitive), and the sort gives the
\* same output whatever the order the entries are handed to it in.
C5_StrictTotalOrder ==
  pc = "fill" =>
    LET n == Len(websitesMap)
        e(i) == websitesMap[i].value
    IN  /\ \A i \in 1..n : \A j \in (i + 1)..n :
             /\ Compare(e(i), e(j)) # 0
             /\ Sign(Compare(e(i), e(j))) = - Sign(Compare(e(j), e(i)))
        /\ \A i \in 1..n : \A j \in 1..n \ {i} : \A k \in 1..n \ {i, j} :
             (Compare(e(i), e(j)) < 0 /\ Compare(e(j), e(k)) < 0) => Compare(e(i), e(k)) < 0
        /\ \A order \in Permutations(1..n) : ArraySort(websitesMap, order) = result

\* Three entries, two of them tied on every rank key, and an output that is not
\* in the Map's order.
C5_Witness ==
  /\ pc = "done"
  /\ Len(Output) = 3
  /\ result # ArrayFromValues(websitesMap)
  /\ \E i, j \in 1..Len(Output) :
       /\ i < j
       /\ HasLocal(Output[i]) /\ HasLocal(Output[j])
       /\ LocalCount(Output[i]) = LocalCount(Output[j])
       /\ MeanEqual(Output[i], Output[j])
       /\ LocalMin(Output[i]) = LocalMin(Output[j])
       /\ Output[i].rank # Output[j].rank

----------------------------------------------------------------------------
(* Claims about folding a list again, checked under Spec *)

\* The entries of the Map, as a set
Entries(map) == {map[i].value : i \in 1..Len(map)}

\* C11: folding the records of the list just folded a second time leaves the
\* set of entries (keys, ranks, urls) as the first folding left it, for tranco
\* and for every other list.
C11_FoldTwiceSame ==
  pc = "merge" =>
    /\ cur <= 1 =>
         Entries(trancoPass(websitesMap, data["tranco"])) = Entries(websitesMap)
    /\ cur >= 2 =>
         Entries(otherPass(websitesMap, Order[cur], data[Order[cur]])) = Entries(websitesMap)

\* Three records of one list for one key were folded, the ranks not all equal:
\* tranco's, with the smallest rank and a url not first; or another list's.
C11_Witness ==
  /\ pc = "merge"
  /\ cur >= 1
  /\ LET items == data[Order[cur]]
     IN  /\ Len(items) = 3
         /\ \A i \in 1..3 : normalizeWebsite(items[i].domain) = ATw
         /\ items[1].rank > items[2].rank
         /\ items[2].rank < items[3].rank
         /\ items[1].domain # items[2].domain

----------------------------------------------------------------------------
(* Claims about records without a domain and files without records *)

\* The records that have their domain field
WithDomain(items) == SelectSeq(items, LAMBDA item : item.domain # Undefined)

\* The names of the lists whose files gave a record, in processing order
Yielding == SelectSeq(Order, LAMBDA n : data[n] # <<>>)

\* The for loop over the lists named, none of them tranco
RECURSIVE passesOver(_, _, _)
passesOver(map, names, files) ==
  IF names = <<>> THEN map
  ELSE passesOver(otherPass(map, Head(names), files[Head(names)]), Tail(names), files)

\* The Map the merge leaves when only the lists named are in FILES
MergedOf(names, files) ==
  passesOver(IF \E i \in 1..Len(names) : names[i] = "tranco"
             THEN trancoPass(<<>>, files["tranco"]) ELSE <<>>,
             SelectSeq(names, LAMBDA n : n # "tranco"), files)

\* The Map is the one the merge leaves when the records without a domain field
\* are taken out of the files and the lists without a record out of FILES.
C12_ResultUnchanged ==
  pc = "merge" =>
    websitesMap = MergedOf(Yielding, [n \in ListNames |-> WithDomain(data[n])])

\* No file makes the merge throw.
C12_NeverAborts == pc # "aborted"

\* C12: a record without its domain field and a file that gives no record
\* (unreadable ones included) neither abort the merge nor change the Map.
C12_DataShapeHarmless == C12_NeverAborts /\ C12_ResultUnchanged

\* With entries in the Map and a record without its domain field read, the
\* file that holds no item has been passed.
C12_Witness ==
  /\ pc = "merge"
  /\ cur \in ItemlessFiles
  /\ websitesMap # <<>>
  /\ \E i \in 1..Len(data["ahrefs"]) : data["ahrefs"][i].domain = Undefined

====
